---------------------------- MODULE Spec2Model ----------------------------
(***************************************************************************)
(* Model of python_scripts/process_data.py: the heart-rate / respiratory-  *)
(* rate estimation pipeline (sampling-rate estimator, Butterworth band-    *)
(* pass conditioner, FFT dominant-frequency estimator, main).              *)
(*                                                                         *)
(* Numbers.  Python floats are modelled as exact rationals <<num, den>>    *)
(* in lowest terms with den > 0; <<0, 0>> stands for None (no value).      *)
(* Floating-point rounding is not modelled.                                *)
(*                                                                         *)
(* Waveforms.  A waveform is the record [len, fft]: its number of samples  *)
(* and the bin magnitudes |X[k]| (k = 0 .. len-1, stored at index k+1) of  *)
(* the transform that np.fft.fft yields for the conditioned, Hamming-      *)
(* windowed waveform.  filtfilt, the window and the transform are          *)
(* deterministic maps that are not computed here; a waveform is identified *)
(* with the spectrum they give it.  The spectrum of a real signal is       *)
(* conjugate-symmetric: |X[len-k]| = |X[k]|.                               *)
(***************************************************************************)
EXTENDS Integers, Sequences, FiniteSets, TLC

VARIABLES
    pc,                      \* position in main, or in a direct call
    data,                    \* the loaded recording (main)
    sampling_rate_override,  \* main's second parameter
    actual_sampling_rate,    \* main, line 281
    sampling_rate,           \* main, line 284
    bvp_filtered,            \* main, line 296
    resp_filtered,           \* main, line 300
    hr,                      \* main, line 304
    rr,                      \* main, line 305
    median_hr,               \* main, line 322
    median_rr,               \* main, line 323
    raised,                  \* the exception that ended main or the call
    args,                    \* arguments of a direct call of one function
    ret,                     \* what the direct call returned
    locals                   \* find_dominant_frequency's min_idx, max_idx
                             \* and sorted peaks in the direct call

vars == <<pc, data, sampling_rate_override, actual_sampling_rate,
          sampling_rate, bvp_filtered, resp_filtered, hr, rr,
          median_hr, median_rr, raised, args, ret, locals>>

mainVars == <<data, sampling_rate_override, actual_sampling_rate,
              sampling_rate, bvp_filtered, resp_filtered, hr, rr,
              median_hr, median_rr>>

---------------------------------------------------------------------------
(* Bounds of the model *)

\* largest bin magnitude of a spectrum
MaxMag == 3
\* longest transform given to a direct call
MaxN == 12
\* latest endTime of a recording, seconds after the epoch of the model
MaxTime == 40

---------------------------------------------------------------------------
(* Rational arithmetic *)

Abs(x) == IF x < 0 THEN -x ELSE x

RECURSIVE GCD(_, _)
GCD(a, b) == IF b = 0 THEN a ELSE GCD(b, a % b)

\* n/d in lowest terms, d # 0
Rat(n, d) ==
    LET g == GCD(Abs(n), Abs(d))
        s == IF d < 0 THEN -1 ELSE 1
    IN  <<(s * n) \div g, (s * d) \div g>>

NoneRat == <<0, 0>>
IsNone(r) == r[2] = 0
Zero == <<0, 1>>

RatLt(a, b) == a[1] * b[2] < b[1] * a[2]
RatLe(a, b) == a[1] * b[2] <= b[1] * a[2]
RatMul(a, b) == Rat(a[1] * b[1], a[2] * b[2])
\* a / b, b # 0
RatDiv(a, b) == Rat(a[1] * b[2], a[2] * b[1])
\* Python's max(a, b): the first argument unless the second is greater
RatMax(a, b) == IF RatLt(a, b) THEN b ELSE a
\* Python's int(): truncation toward zero
Trunc(r) == IF r[1] >= 0 THEN r[1] \div r[2] ELSE -((-r[1]) \div r[2])

Min2(a, b) == IF a < b THEN a ELSE b
Max2(a, b) == IF a > b THEN a ELSE b

---------------------------------------------------------------------------
(* Results of a call: a value, or an exception *)

NoExc == "none"
Ok(v) == [exc |-> NoExc, val |-> v]
Raise(e) == [exc |-> e, val |-> NoneRat]


---------------------------------------------------------------------------
(* Program constants *)

\* the timestamp of a recording whose startTime / endTime makes the try
\* block of calculate_actual_sampling_rate raise (missing key, not a string,
\* not ISO-8601)
BadTime == -1
\* data['metadata'].get('samplingRate', 30)
DefaultSamplingRate == 30
\* max(actual_fs, 10)
MinSamplingRate == 10
\* filtfilt's default padlen, 3 * max(len(a), len(b)), for the 9 + 9
\* coefficients of the order-4 bandpass butter() designs
PadLen == 27

\* heart rate band 0.6 - 3.3 Hz, respiratory band 0.1 - 0.54 Hz
HrLow == Rat(6, 10)
HrHigh == Rat(33, 10)
RrLow == Rat(1, 10)
RrHigh == Rat(54, 100)

NoneSignal == [len |-> -1, mean |-> 0, fft |-> <<>>]

---------------------------------------------------------------------------
(* calculate_actual_sampling_rate, lines 17-45 *)

\* data['metadata']['samplingRate']: no default for an absent rate
MetadataSamplingRate_no_default(d) == d.samplingRate

\* data['metadata'].get('samplingRate', 30)
MetadataSamplingRate(d) ==
    IF IsNone(d.samplingRate) THEN Rat(DefaultSamplingRate, 1)
    ELSE d.samplingRate

\* the try block raises: a timestamp that fromisoformat rejects
TimestampsRaise(d) == d.startTime = BadTime \/ d.endTime = BadTime

\* line 41 as "return actual_fs": the floor left out
calculate_actual_sampling_rate_no_floor(d) ==
    IF TimestampsRaise(d)
    THEN MetadataSamplingRate(d)
    ELSE LET duration == d.endTime - d.startTime
             num_samples == d.bvp.len
         IN  IF duration > 0
             THEN Rat(num_samples, duration)
             ELSE MetadataSamplingRate(d)

\* the floor applied to the computed rate alone, not to the declared rate
calculate_actual_sampling_rate_floor_computed(d) ==
    IF TimestampsRaise(d)
    THEN MetadataSamplingRate(d)
    ELSE LET duration == d.endTime - d.startTime
             num_samples == d.bvp.len
         IN  IF duration > 0
             THEN RatMax(Rat(num_samples, duration), Rat(MinSamplingRate, 1))
             ELSE MetadataSamplingRate(d)

calculate_actual_sampling_rate(d) ==
    IF TimestampsRaise(d)
    THEN \* except Exception: fall back to metadata rate or default
         MetadataSamplingRate(d)
    ELSE LET duration == d.endTime - d.startTime
             num_samples == d.bvp.len
             actual_fs == IF duration > 0
                          THEN Rat(num_samples, duration)
                          ELSE MetadataSamplingRate(d)
         IN  RatMax(actual_fs, Rat(MinSamplingRate, 1))

---------------------------------------------------------------------------
(* apply_butterworth_bandpass, lines 48-54 *)

\* scipy.signal.butter(order, [low, high], btype='band') raises ValueError
\* unless 0 < low < high < 1
ButterRaises(low, high) ==
    \/ ~RatLt(Zero, low) \/ ~RatLt(Zero, high)
    \/ ~RatLt(low, Rat(1, 1)) \/ ~RatLt(high, Rat(1, 1))
    \/ ~RatLt(low, high)

\* the normalised cutoffs clipped into (0, 1) instead of rejected
apply_butterworth_bandpass_clamped(signal_data, fs, lowcut, highcut) ==
    IF signal_data.len <= PadLen
    THEN [exc |-> "ValueError: filtfilt", val |-> NoneSignal]
    ELSE [exc |-> NoExc, val |-> signal_data]

\* the result of the call: the filtered signal (same length), or the
\* exception raised
apply_butterworth_bandpass(signal_data, fs, lowcut, highcut) ==
    LET nyquist == RatMul(Rat(1, 2), fs)
    IN  IF nyquist[1] = 0
        THEN [exc |-> "ZeroDivisionError", val |-> NoneSignal]
        ELSE LET low == RatDiv(lowcut, nyquist)
                 high == RatDiv(highcut, nyquist)
             IN  IF ButterRaises(low, high)
                 THEN [exc |-> "ValueError: butter", val |-> NoneSignal]
                 ELSE IF signal_data.len <= PadLen
                 THEN [exc |-> "ValueError: filtfilt", val |-> NoneSignal]
                 ELSE [exc |-> NoExc, val |-> signal_data]

---------------------------------------------------------------------------
(* find_dominant_frequency, lines 57-117 *)

SeqMax(s) == CHOOSE m \in {s[i] : i \in DOMAIN s} :
                 \A i \in DOMAIN s : s[i] <= m

\* the last index of the maximum instead of the first
ArgMax_last(s) == (CHOOSE i \in DOMAIN s :
                      /\ s[i] = SeqMax(s)
                      /\ \A j \in DOMAIN s : j > i => s[j] < s[i]) - 1

\* np.argmax: the first index (from 0) of the maximum
ArgMax(s) == (CHOOSE i \in DOMAIN s :
                 /\ s[i] = SeqMax(s)
                 /\ \A j \in DOMAIN s : j < i => s[j] < s[i]) - 1

\* s without its element at position k
RemoveAt(s, k) == [i \in 1..(Len(s) - 1) |-> IF i < k THEN s[i] ELSE s[i + 1]]

\* peaks.sort(key=lambda x: x['power'], reverse=True): a stable sort, so
\* peaks of equal power keep the order in which the loop appended them
RECURSIVE SortPeaks(_)
SortPeaks(peaks) ==
    IF peaks = <<>> THEN <<>>
    ELSE LET best == CHOOSE i \in DOMAIN peaks : \A j \in DOMAIN peaks :
                        \/ peaks[i].power > peaks[j].power
                        \/ peaks[i].power = peaks[j].power /\ i <= j
         IN  <<peaks[best]>> \o SortPeaks(RemoveAt(peaks, best))

\* no harmonic correction: the dominant peak is returned as it is
HarmonicScan_plain(peaks, dominant_peak, k) == dominant_peak.freq

\* the last peak of peaks[1:] that passes the test instead of the first
HarmonicScan_last(peaks, dominant_peak, k) ==
    LET passing == {j \in k..Len(peaks) :
                       /\ RatLt(Rat(19, 10),
                                RatDiv(dominant_peak.freq, peaks[j].freq))
                       /\ RatLt(RatDiv(dominant_peak.freq, peaks[j].freq),
                                Rat(21, 10))
                       /\ 10 * peaks[j].power > 3 * dominant_peak.power}
    IN  IF passing = {} THEN dominant_peak.freq
        ELSE peaks[CHOOSE j \in passing : \A i \in passing : i <= j].freq

\* the loop over peaks[1:], from position k: the first peak that has about
\* half the dominant frequency and more than 0.3 of its power
RECURSIVE HarmonicScan(_, _, _)
HarmonicScan(peaks, dominant_peak, k) ==
    IF k > Len(peaks) THEN dominant_peak.freq
    ELSE LET peak == peaks[k]
             ratio == RatDiv(dominant_peak.freq, peak.freq)
         IN  IF /\ RatLt(Rat(19, 10), ratio)
                /\ RatLt(ratio, Rat(21, 10))
                /\ 10 * peak.power > 3 * dominant_peak.power
             THEN peak.freq
             ELSE HarmonicScan(peaks, dominant_peak, k + 1)

\* min_idx without the lower limit 1
MinIdx_unclamped(n, fs, min_freq) ==
    Trunc(RatDiv(min_freq, RatDiv(fs, Rat(n, 1))))

\* min_idx and max_idx of lines 64-65; fs > 0 and n > 0
MinIdx(n, fs, min_freq) ==
    Max2(1, Trunc(RatDiv(min_freq, RatDiv(fs, Rat(n, 1)))))
\* max_idx rounded up instead of truncated
MaxIdx_round_up(n, fs, max_freq) ==
    Min2(Trunc(RatDiv(max_freq, RatDiv(fs, Rat(n, 1)))) + 1, n \div 2)

MaxIdx(n, fs, max_freq) ==
    Min2(Trunc(RatDiv(max_freq, RatDiv(fs, Rat(n, 1)))), n \div 2)

\* np.abs(fft_result[min_idx:max_idx])**2; local index i (from 1) is bin
\* min_idx + i - 1, stored at fft_result[min_idx + i]
PowerSpectrum(fft_result, min_idx, max_idx) ==
    [i \in 1..(max_idx - min_idx) |->
        fft_result[min_idx + i] * fft_result[min_idx + i]]

\* a sample that equals a neighbour also counts as a peak
IsPeak_nonstrict(power_spectrum, i) ==
    /\ power_spectrum[i] >= power_spectrum[i - 1]
    /\ power_spectrum[i] >= power_spectrum[i + 1]
    /\ 10 * power_spectrum[i] > 2 * SeqMax(power_spectrum)

\* the test of lines 83-85 at local index i (from 1), 2 <= i <= len - 1
IsPeak(power_spectrum, i) ==
    /\ power_spectrum[i] > power_spectrum[i - 1]
    /\ power_spectrum[i] > power_spectrum[i + 1]
    /\ 10 * power_spectrum[i] > 2 * SeqMax(power_spectrum)

\* the loop of lines 82-90 from local index i (from 1) on: the peaks it
\* appends, in ascending index order
RECURSIVE CollectPeaks(_, _, _, _)
CollectPeaks(power_spectrum, min_idx, freq_resolution, i) ==
    IF i > Len(power_spectrum) - 1 THEN <<>>
    ELSE (IF IsPeak(power_spectrum, i)
          THEN <<[idx |-> i - 1 + min_idx,
                  freq |-> RatMul(Rat(i - 1 + min_idx, 1), freq_resolution),
                  power |-> power_spectrum[i]]>>
          ELSE <<>>)
         \o CollectPeaks(power_spectrum, min_idx, freq_resolution, i + 1)

\* 0 when there is no peak, instead of the frequency of the maximum
find_dominant_frequency_fallback_zero(fft_result, fs, min_freq, max_freq) ==
    LET n == Len(fft_result)
    IN  IF n = 0 \/ fs[1] = 0
        THEN Raise("ZeroDivisionError")
        ELSE
        LET freq_resolution == RatDiv(fs, Rat(n, 1))
            min_idx == MinIdx(n, fs, min_freq)
            max_idx == MaxIdx(n, fs, max_freq)
            power_spectrum == PowerSpectrum(fft_result, min_idx, max_idx)
            peaks == SortPeaks(CollectPeaks(power_spectrum, min_idx,
                                            freq_resolution, 2))
        IN  IF Len(power_spectrum) = 0
            THEN Ok(Zero)
            ELSE IF peaks = <<>>
            THEN Ok(Zero)
            ELSE Ok(HarmonicScan(peaks, peaks[1], 2))

\* the fallback without the offset min_idx of the slice
find_dominant_frequency_local_index(fft_result, fs, min_freq, max_freq) ==
    LET n == Len(fft_result)
    IN  IF n = 0 \/ fs[1] = 0
        THEN Raise("ZeroDivisionError")
        ELSE
        LET freq_resolution == RatDiv(fs, Rat(n, 1))
            min_idx == MinIdx(n, fs, min_freq)
            max_idx == MaxIdx(n, fs, max_freq)
            power_spectrum == PowerSpectrum(fft_result, min_idx, max_idx)
            peaks == SortPeaks(CollectPeaks(power_spectrum, min_idx,
                                            freq_resolution, 2))
        IN  IF Len(power_spectrum) = 0
            THEN Ok(Zero)
            ELSE IF peaks = <<>>
            THEN Ok(RatMul(Rat(ArgMax(power_spectrum), 1),
                           freq_resolution))
            ELSE Ok(HarmonicScan(peaks, peaks[1], 2))

find_dominant_frequency(fft_result, fs, min_freq, max_freq) ==
    LET n == Len(fft_result)
    IN  IF n = 0 \/ fs[1] = 0
        THEN Raise("ZeroDivisionError")
        ELSE
        LET freq_resolution == RatDiv(fs, Rat(n, 1))
            min_idx == MinIdx(n, fs, min_freq)
            max_idx == MaxIdx(n, fs, max_freq)
            power_spectrum == PowerSpectrum(fft_result, min_idx, max_idx)
            peaks == SortPeaks(CollectPeaks(power_spectrum, min_idx,
                                            freq_resolution, 2))
        IN  IF Len(power_spectrum) = 0
            THEN Ok(Zero)
            ELSE IF peaks = <<>>
            THEN Ok(RatMul(Rat(ArgMax(power_spectrum) + min_idx, 1),
                           freq_resolution))
            ELSE Ok(HarmonicScan(peaks, peaks[1], 2))

\* what find_dominant_frequency holds in min_idx (line 64), max_idx
\* (line 65) and peaks (after the sort of line 93) when it returns, and
\* the bins of fft_result that the slice of line 68 has read
NoLocals == [min_idx |-> 0, max_idx |-> 0, bins |-> {}, peaks |-> <<>>]

find_dominant_frequency_locals(fft_result, fs, min_freq, max_freq) ==
    LET n == Len(fft_result)
    IN  IF n = 0 \/ fs[1] = 0
        THEN NoLocals
        ELSE
        LET freq_resolution == RatDiv(fs, Rat(n, 1))
            min_idx == MinIdx(n, fs, min_freq)
            max_idx == MaxIdx(n, fs, max_freq)
            power_spectrum == PowerSpectrum(fft_result, min_idx, max_idx)
        IN  [min_idx |-> min_idx, max_idx |-> max_idx,
             bins |-> {min_idx + i - 1 : i \in DOMAIN power_spectrum},
             peaks |-> IF Len(power_spectrum) = 0 THEN <<>>
                       ELSE SortPeaks(CollectPeaks(power_spectrum, min_idx,
                                                   freq_resolution, 2))]

---------------------------------------------------------------------------
(* calculate_heart_rate, calculate_respiratory_rate, lines 120-147 *)

\* hamming window, np.fft.fft (ValueError on an empty array),
\* find_dominant_frequency over the band, times 60
RateOverBand(signal_data, fs, min_freq, max_freq) ==
    IF signal_data.len = 0
    THEN [exc |-> "ValueError: fft", dominant_freq |-> NoneRat,
          val |-> NoneRat]
    ELSE LET r == find_dominant_frequency(signal_data.fft, fs,
                                          min_freq, max_freq)
         IN  IF r.exc # NoExc
             THEN [exc |-> r.exc, dominant_freq |-> NoneRat, val |-> NoneRat]
             ELSE [exc |-> NoExc, dominant_freq |-> r.val,
                   val |-> RatMul(r.val, Rat(60, 1))]

calculate_heart_rate(signal_data, fs) ==
    RateOverBand(signal_data, fs, HrLow, HrHigh)

calculate_respiratory_rate(signal_data, fs) ==
    RateOverBand(signal_data, fs, RrLow, RrHigh)


---------------------------------------------------------------------------
(* remove_dc, lines 150-152, and np.median *)

\* signal_data - np.mean(signal_data): same length, mean 0
remove_dc(signal_data) == [signal_data EXCEPT !.mean = 0]

RECURSIVE SortInts(_)
SortInts(s) ==
    IF s = <<>> THEN <<>>
    ELSE LET k == CHOOSE i \in DOMAIN s : \A j \in DOMAIN s : s[i] <= s[j]
         IN  <<s[k]>> \o SortInts(RemoveAt(s, k))

\* np.median: nan (here None) for an empty list
Median(values) ==
    LET sorted == SortInts(values)
        m == Len(values)
    IN  IF m = 0 THEN NoneRat
        ELSE IF m % 2 = 1 THEN Rat(sorted[(m + 1) \div 2], 1)
        ELSE Rat(sorted[m \div 2] + sorted[m \div 2 + 1], 2)

---------------------------------------------------------------------------
(* Recordings *)

\* the spectrum of length n that has magnitude m at bin k (and at its
\* mirror bin n - k) for every <<k, m>> of tones, and 0 elsewhere
Spectrum(n, tones) ==
    LET at(b) == {t \in tones : t[1] = b \/ (b > 0 /\ t[1] = n - b)}
    IN  [i \in 1..n |->
            IF at(i - 1) = {} THEN 0
            ELSE (CHOOSE t \in at(i - 1) :
                     \A u \in at(i - 1) : u[2] <= t[2])[2]]

\* the waveforms of main's recordings: a constant signal, one tone, and a
\* tone with a stronger second harmonic
Waveforms(n) ==
    { [len |-> n, mean |-> 5, fft |-> Spectrum(n, {})],
      [len |-> n, mean |-> 0, fft |-> Spectrum(n, {<<2, MaxMag>>})],
      [len |-> n, mean |-> 1,
       fft |-> Spectrum(n, {<<7, MaxMag - 1>>, <<14, MaxMag>>})] }

StartTimes == {BadTime, 0, 1}
EndTimes == {BadTime, 0, 1, 10, MaxTime}
SampleCounts == {0, PadLen + 1, 300}
DeclaredRates == {NoneRat, Rat(5, 1), Rat(30, 1)}
Overrides == {NoneRat, Zero, Rat(5, 1), Rat(12, 1)}
HeartSeries == <<72, 70, 75>>
RespiratorySeries == <<15, 16>>

Recording(st, et, sr, b, r, hh, hrs) ==
    [startTime |-> st, endTime |-> et, samplingRate |-> sr,
     bvp |-> b, resp |-> r,
     hasHeart |-> hh, hasRespiratory |-> hrs,
     heart |-> IF hh THEN HeartSeries ELSE <<>>,
     respiratory |-> IF hrs THEN RespiratorySeries ELSE <<>>]

NoArgs == [fn |-> "none"]
NoRet == [exc |-> NoExc]

---------------------------------------------------------------------------
(* main, lines 276-336 *)

Init ==
    /\ pc = "start"
    /\ \E st \in StartTimes, et \in EndTimes, sr \in DeclaredRates,
          n \in SampleCounts, hh \in BOOLEAN, hrs \in BOOLEAN :
          \E b \in Waveforms(n), r \in Waveforms(n) \cup Waveforms(n + 2) :
             data = Recording(st, et, sr, b, r, hh, hrs)
    /\ sampling_rate_override \in Overrides
    /\ actual_sampling_rate = NoneRat
    /\ sampling_rate = NoneRat
    /\ bvp_filtered = NoneSignal
    /\ resp_filtered = NoneSignal
    /\ hr = NoneRat
    /\ rr = NoneRat
    /\ median_hr = NoneRat
    /\ median_rr = NoneRat
    /\ raised = NoExc
    /\ args = NoArgs
    /\ ret = NoRet
    /\ locals = NoLocals

\* line 281
CalculateActualSamplingRate ==
    /\ pc = "start"
    /\ actual_sampling_rate' = calculate_actual_sampling_rate(data)
    /\ pc' = "resolve"
    /\ UNCHANGED <<data, sampling_rate_override, sampling_rate, bvp_filtered,
                   resp_filtered, hr, rr, median_hr, median_rr, raised,
                   args, ret, locals>>

\* the truth value of sampling_rate_override: None and 0 are false
Truthy(r) == ~IsNone(r) /\ r[1] # 0

\* line 284
ResolveSamplingRate ==
    /\ pc = "resolve"
    /\ sampling_rate' = IF Truthy(sampling_rate_override)
                        THEN sampling_rate_override
                        ELSE actual_sampling_rate
    /\ pc' = "filter_bvp"
    /\ UNCHANGED <<data, sampling_rate_override, actual_sampling_rate,
                   bvp_filtered, resp_filtered, hr, rr, median_hr, median_rr,
                   raised, args, ret, locals>>

\* lines 287, 291, 296-297
FilterBvp ==
    /\ pc = "filter_bvp"
    /\ LET r == apply_butterworth_bandpass(remove_dc(data.bvp),
                                           sampling_rate, HrLow, HrHigh)
       IN  /\ bvp_filtered' = r.val
           /\ raised' = r.exc
           /\ pc' = IF r.exc = NoExc THEN "filter_resp" ELSE "error"
    /\ UNCHANGED <<data, sampling_rate_override, actual_sampling_rate,
                   sampling_rate, resp_filtered, hr, rr, median_hr,
                   median_rr, args, ret, locals>>

\* lines 288, 292, 300-301
FilterResp ==
    /\ pc = "filter_resp"
    /\ LET r == apply_butterworth_bandpass(remove_dc(data.resp),
                                           sampling_rate, RrLow, RrHigh)
       IN  /\ resp_filtered' = r.val
           /\ raised' = r.exc
           /\ pc' = IF r.exc = NoExc THEN "heart_rate" ELSE "error"
    /\ UNCHANGED <<data, sampling_rate_override, actual_sampling_rate,
                   sampling_rate, bvp_filtered, hr, rr, median_hr,
                   median_rr, args, ret, locals>>

\* line 304
CalculateHeartRate ==
    /\ pc = "heart_rate"
    /\ LET r == calculate_heart_rate(bvp_filtered, sampling_rate)
       IN  /\ hr' = r.val
           /\ raised' = r.exc
           /\ pc' = IF r.exc = NoExc THEN "respiratory_rate" ELSE "error"
    /\ UNCHANGED <<data, sampling_rate_override, actual_sampling_rate,
                   sampling_rate, bvp_filtered, resp_filtered, rr, median_hr,
                   median_rr, args, ret, locals>>

\* line 305
CalculateRespiratoryRate ==
    /\ pc = "respiratory_rate"
    /\ LET r == calculate_respiratory_rate(resp_filtered, sampling_rate)
       IN  /\ rr' = r.val
           /\ raised' = r.exc
           /\ pc' = IF r.exc = NoExc THEN "plot" ELSE "error"
    /\ UNCHANGED <<data, sampling_rate_override, actual_sampling_rate,
                   sampling_rate, bvp_filtered, resp_filtered, hr, median_hr,
                   median_rr, args, ret, locals>>

\* plot_signals, lines 155-214: data['metadata']['samplingRate'] (line 157),
\* fromisoformat(startTime) (line 160), and plt.plot(time, resp raw) with
\* len(time) = len(bvp raw) (lines 158, 169, 196)
plot_signals(d) ==
    IF IsNone(d.samplingRate) THEN "KeyError: samplingRate"
    ELSE IF d.startTime = BadTime THEN "ValueError: fromisoformat"
    ELSE IF d.resp.len # d.bvp.len THEN "ValueError: plot"
    ELSE NoExc

\* lines 308-315: plot_frequency_spectrum twice, then plot_signals
Plot ==
    /\ pc = "plot"
    /\ raised' = plot_signals(data)
    /\ pc' = IF plot_signals(data) = NoExc THEN "medians" ELSE "error"
    /\ UNCHANGED <<mainVars, args, ret, locals>>

\* lines 319-323
ReferenceMedians ==
    /\ pc = "medians"
    /\ IF data.hasHeart /\ data.hasRespiratory
       THEN /\ median_hr' = Median(data.heart)
            /\ median_rr' = Median(data.respiratory)
            /\ raised' = NoExc
            /\ pc' = "report"
       ELSE /\ UNCHANGED <<median_hr, median_rr>>
            /\ raised' = "KeyError: rates"
            /\ pc' = "error"
    /\ UNCHANGED <<data, sampling_rate_override, actual_sampling_rate,
                   sampling_rate, bvp_filtered, resp_filtered, hr, rr,
                   args, ret, locals>>

\* lines 325-336
Report ==
    /\ pc = "report"
    /\ pc' = "done"
    /\ UNCHANGED <<mainVars, raised, args, ret, locals>>

Next ==
    \/ CalculateActualSamplingRate
    \/ ResolveSamplingRate
    \/ FilterBvp
    \/ FilterResp
    \/ CalculateHeartRate
    \/ CalculateRespiratoryRate
    \/ Plot
    \/ ReferenceMedians
    \/ Report

Spec == Init /\ [][Next]_vars


---------------------------------------------------------------------------
(* Direct calls of the conditioner and of the spectral estimator *)

\* the conjugate-symmetric magnitude spectrum of length n whose bins
\* 0 .. n div 2 are dc, inner[1] .. inner[n div 2 - 1], top
Symmetric(n, dc, inner, top) ==
    LET half(k) == IF k = 0 THEN dc
                   ELSE IF k = n \div 2 THEN top
                   ELSE inner[k]
    IN  [i \in 1..n |-> IF i - 1 <= n \div 2 THEN half(i - 1)
                        ELSE half(n - (i - 1))]

\* the magnitudes tried for bin 0 and bin n div 2, and for the other bins
EdgeMagnitudes == {0, MaxMag}
Magnitudes == 0..MaxMag

EstimatorRates == {Rat(1, 1), Rat(3, 1), Rat(4, 1), Rat(10, 1)}
EstimatorLengths == 0..MaxN

EstimatorArgs(n, dc, inner, top, fs) ==
    [fn |-> "estimate",
     signal_data |-> [len |-> n, mean |-> 0,
                      fft |-> Symmetric(n, dc, inner, top)],
     fs |-> fs, lowcut |-> NoneRat, highcut |-> NoneRat]

FilterRates == {Rat(-10, 1), Zero, Rat(1, 1), Rat(2, 1), Rat(66, 10),
                Rat(7, 1), Rat(30, 1)}
\* cutoff frequencies, none negative
Cutoffs == {Zero, RrLow, RrHigh, HrLow, HrHigh, Rat(5, 1)}
FilterLengths == {0, PadLen, PadLen + 1}

FilterArgs(n, fs, lo, hi) ==
    [fn |-> "filter",
     signal_data |-> [len |-> n, mean |-> 0, fft |-> Spectrum(n, {})],
     fs |-> fs, lowcut |-> lo, highcut |-> hi]

\* a long window with three tones, the strongest near twice the frequency
\* of the other two: bins 29 and 31 are both within 1.9 < 60/k < 2.1
HarmonicLengths == {300}
HarmonicMagnitudes == {0, 3, 4, 5}
HarmonicArgs(n, a, b, c) ==
    [fn |-> "estimate",
     signal_data |-> [len |-> n, mean |-> 0,
                      fft |-> Spectrum(n, {<<29, a>>, <<31, b>>, <<60, c>>})],
     fs |-> Rat(10, 1), lowcut |-> NoneRat, highcut |-> NoneRat]

\* direct calls of find_dominant_frequency, the empty transform and the
\* rate 0 among them
FindLengths == {0, 1, 4}
FindRates == {Zero, Rat(4, 1)}
FindArgs(n, dc, inner, top, fs, band) ==
    [fn |-> "find",
     signal_data |-> [len |-> n, mean |-> 0,
                      fft |-> Symmetric(n, dc, inner, top)],
     fs |-> fs, lowcut |-> band[1], highcut |-> band[2]]

InitCalls ==
    /\ pc = "call"
    /\ \/ \E n \in EstimatorLengths, fs \in EstimatorRates :
             \E inner \in [1..(n \div 2 - 1) -> Magnitudes],
                dc \in EdgeMagnitudes, top \in EdgeMagnitudes :
                args = EstimatorArgs(n, dc, inner, top, fs)
       \/ \E n \in FilterLengths, fs \in FilterRates,
             lo \in Cutoffs, hi \in Cutoffs :
                args = FilterArgs(n, fs, lo, hi)
       \/ \E n \in HarmonicLengths, a \in HarmonicMagnitudes,
             b \in HarmonicMagnitudes, c \in HarmonicMagnitudes :
                args = HarmonicArgs(n, a, b, c)
       \/ \E n \in FindLengths, fs \in FindRates,
             band \in {<<HrLow, HrHigh>>, <<RrLow, RrHigh>>} :
             \E inner \in [1..(n \div 2 - 1) -> Magnitudes],
                dc \in EdgeMagnitudes, top \in EdgeMagnitudes :
                args = FindArgs(n, dc, inner, top, fs, band)
    /\ ret = NoRet
    /\ locals = NoLocals
    /\ raised = NoExc
    /\ data = [startTime |-> BadTime]
    /\ sampling_rate_override = NoneRat
    /\ actual_sampling_rate = NoneRat
    /\ sampling_rate = NoneRat
    /\ bvp_filtered = NoneSignal
    /\ resp_filtered = NoneSignal
    /\ hr = NoneRat
    /\ rr = NoneRat
    /\ median_hr = NoneRat
    /\ median_rr = NoneRat

CallApplyButterworthBandpass ==
    /\ pc = "call"
    /\ args.fn = "filter"
    /\ ret' = apply_butterworth_bandpass(args.signal_data, args.fs,
                                         args.lowcut, args.highcut)
    /\ raised' = ret'.exc
    /\ pc' = "filtered"
    /\ UNCHANGED <<mainVars, args, locals>>

CallFindDominantFrequency ==
    /\ pc = "call"
    /\ args.fn = "find"
    /\ LET r == find_dominant_frequency(args.signal_data.fft, args.fs,
                                        args.lowcut, args.highcut)
       IN  ret' = [exc |-> r.exc, dominant_freq |-> r.val, val |-> r.val]
    /\ locals' = find_dominant_frequency_locals(args.signal_data.fft,
                      args.fs, args.lowcut, args.highcut)
    /\ raised' = ret'.exc
    /\ pc' = "found"
    /\ UNCHANGED <<mainVars, args>>

CallCalculateHeartRate ==
    /\ pc = "call"
    /\ args.fn = "estimate"
    /\ ret' = calculate_heart_rate(args.signal_data, args.fs)
    /\ locals' = find_dominant_frequency_locals(args.signal_data.fft,
                      args.fs, HrLow, HrHigh)
    /\ raised' = ret'.exc
    /\ pc' = "heart_rate_returned"
    /\ UNCHANGED <<mainVars, args>>

CallCalculateRespiratoryRate ==
    /\ pc = "call"
    /\ args.fn = "estimate"
    /\ ret' = calculate_respiratory_rate(args.signal_data, args.fs)
    /\ locals' = find_dominant_frequency_locals(args.signal_data.fft,
                      args.fs, RrLow, RrHigh)
    /\ raised' = ret'.exc
    /\ pc' = "respiratory_rate_returned"
    /\ UNCHANGED <<mainVars, args>>

NextCalls ==
    \/ CallApplyButterworthBandpass
    \/ CallFindDominantFrequency
    \/ CallCalculateHeartRate
    \/ CallCalculateRespiratoryRate

SpecCalls == InitCalls /\ [][NextCalls]_vars


\* main and the direct calls together
SpecAll == (Init \/ InitCalls) /\ [][Next \/ NextCalls]_vars

---------------------------------------------------------------------------
(* Claims *)

TimestampsParse == data.startTime # BadTime /\ data.endTime # BadTime
Estimated == pc \in {"resolve", "filter_bvp", "filter_resp", "heart_rate",
                     "respiratory_rate", "plot", "medians", "report",
                     "done", "error"}

\* C1: when both timestamps parse and duration = end - start > 0, the
\* returned rate is max(len(bvp.raw) / duration, 10); start = T0,
\* end = T0 + 10 s and 300 samples give 30
C1_ComputedRate ==
    (Estimated /\ TimestampsParse /\ data.endTime > data.startTime) =>
        LET duration == data.endTime - data.startTime
            sample_count == data.bvp.len
        IN  /\ actual_sampling_rate[2] > 0
            /\ IF sample_count >= 10 * duration
               THEN actual_sampling_rate[1] * duration
                        = sample_count * actual_sampling_rate[2]
               ELSE actual_sampling_rate = <<10, 1>>
            /\ (duration = 10 /\ sample_count = 300)
                   => actual_sampling_rate = <<30, 1>>

C1_Witness ==
    /\ Estimated
    /\ data.startTime = 0 /\ data.endTime = 10 /\ data.bvp.len = 300
    /\ actual_sampling_rate = <<30, 1>>

\* C2 as stated: when the timestamps parse and end <= start, the returned
\* rate is exactly the declared metadata.samplingRate, also below 10 Hz
C2_DeclaredRateUnfloored ==
    (/\ Estimated /\ TimestampsParse /\ data.endTime <= data.startTime
     /\ ~IsNone(data.samplingRate))
        => actual_sampling_rate = data.samplingRate

\* C2 amended: when the timestamps parse and end <= start, the returned
\* rate is max(declared, 10), declared being metadata.samplingRate (30 when
\* absent): a declared rate below 10 Hz is raised to the 10 Hz floor
C2_DeclaredRateFloored ==
    (Estimated /\ TimestampsParse /\ data.endTime <= data.startTime) =>
        LET declared == IF IsNone(data.samplingRate) THEN <<30, 1>>
                        ELSE data.samplingRate
        IN  actual_sampling_rate =
                IF declared[1] < 10 * declared[2] THEN <<10, 1>>
                ELSE declared

C2_Witness ==
    /\ Estimated /\ TimestampsParse /\ data.endTime < data.startTime
    /\ data.samplingRate = <<5, 1>>
    /\ actual_sampling_rate = <<10, 1>>

\* C3: when startTime or endTime cannot be parsed, no error reaches the
\* caller: the function returns the declared metadata.samplingRate, and 30
\* when the declared rate is absent
C3_ParseFailureFallsBack ==
    (pc = "resolve" /\ ~TimestampsParse) =>
        /\ raised = NoExc
        /\ actual_sampling_rate =
               IF IsNone(data.samplingRate) THEN <<30, 1>>
               ELSE data.samplingRate

C3_Witness ==
    /\ pc = "resolve"
    /\ data.endTime = BadTime
    /\ IsNone(data.samplingRate)
    /\ actual_sampling_rate = <<30, 1>>

\* C4: the effective sampling rate handed to the conditioner and to the
\* spectral estimator is >= 10 Hz in every run of main, whichever path
\* produced it
C4_RateAtLeastFloor ==
    (pc \in {"filter_bvp", "filter_resp", "heart_rate", "respiratory_rate"})
        => sampling_rate[1] >= 10 * sampling_rate[2]


\* 0 < lowcut < highcut < fs / 2
ValidBand(fs, lowcut, highcut) ==
    /\ lowcut[1] > 0
    /\ lowcut[1] * highcut[2] < highcut[1] * lowcut[2]
    /\ 2 * highcut[1] * fs[2] < fs[1] * highcut[2]

C9_LengthMismatchRejected ==
    (pc # "call" /\ pc # "filtered" /\ data.bvp.len # data.resp.len)
        => (IsNone(hr) /\ IsNone(rr))

\* C10: for a recording without rates.heart or rates.respiratory main
\* still runs to completion: the absent reference series never ends it
C10_ReferenceRatesOptional ==
    pc = "error" => raised # "KeyError: rates"

---------------------------------------------------------------------------
(* Claims about the spectral estimator, on the direct calls *)

Returned == pc \in {"heart_rate_returned", "respiratory_rate_returned"}
BandMin == IF pc = "heart_rate_returned" THEN <<3, 5>> ELSE <<1, 10>>
BandMax == IF pc = "heart_rate_returned" THEN <<33, 10>> ELSE <<27, 50>>
CallN == args.signal_data.len
\* floor(freq / (fs / N)), by integer division
BinOf(freq) == (freq[1] * args.fs[2] * CallN) \div (freq[2] * args.fs[1])
RangeMin == IF BinOf(BandMin) < 1 THEN 1 ELSE BinOf(BandMin)
RangeMax == IF BinOf(BandMax) < CallN \div 2 THEN BinOf(BandMax)
            ELSE CallN \div 2
\* the power at bin k
Power(k) == args.signal_data.fft[k + 1] * args.signal_data.fft[k + 1]
\* the frequency k * fs / N of bin k
BinFreq(k) == Rat(k * args.fs[1], args.fs[2] * CallN)

\* C6: whenever the index range [min_idx, max_idx) is empty,
\* find_dominant_frequency returns 0 without raising, and the rate that
\* calculate_heart_rate / calculate_respiratory_rate report is 0
C6_EmptyRangeGivesZero ==
    (Returned /\ CallN > 0 /\ RangeMin >= RangeMax) =>
        /\ ret.exc = NoExc
        /\ ret.dominant_freq = <<0, 1>>
        /\ ret.val = <<0, 1>>

\* an empty range on a spectrum that has power
C6_Witness ==
    /\ Returned /\ CallN = MaxN /\ RangeMin >= RangeMax
    /\ \E k \in 1..(CallN \div 2 - 1) : Power(k) > 0
    /\ ret.exc = NoExc /\ ret.val = <<0, 1>>

FlatBand ==
    /\ Returned /\ CallN > 0 /\ RangeMin < RangeMax
    /\ \A k \in RangeMin..(RangeMax - 1) : Power(k) = Power(RangeMin)

\* C7 as stated: on a flat non-empty band find_dominant_frequency does
\* not crash and returns 0
C7_FlatBandGivesZero ==
    FlatBand => (ret.exc = NoExc /\ ret.dominant_freq = <<0, 1>>)

\* C7 amended: on a flat non-empty band find_dominant_frequency does not
\* crash and returns min_idx * fs / N, the frequency of the first bin of
\* the search range, which is above 0
C7_FlatBandGivesFirstBin ==
    FlatBand => /\ ret.exc = NoExc
                /\ ret.dominant_freq = BinFreq(RangeMin)
                /\ ret.dominant_freq[1] > 0
                /\ ret.val = Rat(60 * ret.dominant_freq[1],
                                 ret.dominant_freq[2])

\* an all-zero spectrum over a range of several bins
C7_Witness ==
    /\ FlatBand /\ RangeMax - RangeMin >= 3
    /\ \A k \in RangeMin..(RangeMax - 1) : Power(k) = 0
    /\ ret.dominant_freq = BinFreq(RangeMin)

\* a strong component at bin 2f, a weaker one at bin f with more than 0.3
\* and at most 1.0 times its power, both in the search range, and nothing
\* else in the range that reaches the peak threshold
HarmonicPair(f) ==
    /\ Returned /\ CallN > 0
    /\ RangeMin <= f /\ 2 * f < RangeMax
    /\ Power(2 * f) > 0
    /\ 10 * Power(f) > 3 * Power(2 * f)
    /\ Power(f) <= Power(2 * f)
    /\ \A k \in RangeMin..(RangeMax - 1) :
           k \notin {f, 2 * f} => 10 * Power(k) <= 2 * Power(2 * f)

\* C8 as stated: for every such f, the first bin of the range included,
\* find_dominant_frequency returns f and not 2f
C8_FundamentalReturned ==
    \A f \in 1..MaxN : HarmonicPair(f) => ret.dominant_freq = BinFreq(f)

\* C8 amended: for every such f that is not the first bin of the search
\* range, find_dominant_frequency returns f and not 2f (the first bin of
\* the range is never a candidate peak, so an f there is not recovered)
C8_InteriorFundamentalReturned ==
    \A f \in 1..MaxN :
        (HarmonicPair(f) /\ f > RangeMin) => ret.dominant_freq = BinFreq(f)

\* the second harmonic is an interior peak and strictly dominant, and the
\* fundamental is returned
C8_Witness ==
    \E f \in 1..MaxN :
        /\ HarmonicPair(f) /\ f > RangeMin
        /\ 2 * f < RangeMax - 1
        /\ Power(f) < Power(2 * f)
        /\ ret.dominant_freq = BinFreq(f)

---------------------------------------------------------------------------
(* Claims about main's two tracks *)

MainEnded == pc \in {"done", "error"}

\* what one track gives when it is evaluated on its own: the rate of the
\* conditioned waveform, or None when conditioning or estimation raises
TrackOutcome(waveform, lowcut, highcut) ==
    LET f == apply_butterworth_bandpass(remove_dc(waveform), sampling_rate,
                                        lowcut, highcut)
    IN  IF f.exc # NoExc THEN NoneRat
        ELSE RateOverBand(f.val, sampling_rate, lowcut, highcut).val

\* C11: when main has ended, the pulse track's outcome is what the pulse
\* waveform and the effective sampling rate give on their own, and the
\* respiration track's outcome is what the respiration waveform and the
\* effective sampling rate give on their own, whether or not the other
\* track failed
C11_TracksIndependent ==
    MainEnded =>
        /\ hr = TrackOutcome(data.bvp, HrLow, HrHigh)
        /\ rr = TrackOutcome(data.resp, RrLow, RrHigh)

\* C12: once main has resolved the sampling rate, it is the supplied
\* override whenever one was supplied, whatever its value, and the
\* estimator's result only when none was supplied
C12_OverrideUsed ==
    pc \in {"filter_bvp", "filter_resp", "heart_rate", "respiratory_rate",
            "plot", "medians", "report", "done", "error"} =>
        sampling_rate = IF IsNone(sampling_rate_override)
                        THEN actual_sampling_rate
                        ELSE sampling_rate_override

---------------------------------------------------------------------------
(* Claims about find_dominant_frequency's search, on the direct calls *)

\* C13: min_idx = max(1, floor(min_freq / resolution)) and
\* max_idx = min(floor(max_freq / resolution), N div 2), and every bin k
\* that is read satisfies 1 <= k < max_idx <= N div 2, so bin 0 and the
\* bins above N div 2 are never searched
C13_IndexBounds ==
    (Returned /\ CallN > 0) =>
        /\ locals.min_idx = (IF BinOf(BandMin) > 1 THEN BinOf(BandMin) ELSE 1)
        /\ locals.max_idx = (IF BinOf(BandMax) < CallN \div 2
                             THEN BinOf(BandMax) ELSE CallN \div 2)
        /\ locals.min_idx >= 1
        /\ locals.max_idx <= CallN \div 2
        /\ \A k \in locals.bins : 1 <= k /\ k < locals.max_idx
        /\ \A k \in locals.bins : locals.min_idx <= k

\* min_freq / resolution floors to 0, bin 0 holds power, and the bins read
\* start at bin 1
C13_Witness ==
    /\ Returned /\ CallN > 0
    /\ BinOf(BandMin) = 0
    /\ Power(0) > 0
    /\ locals.min_idx = 1
    /\ locals.bins # {}
    /\ 0 \notin locals.bins

\* the bins recorded in the peak set
PeakBins == {locals.peaks[j].idx : j \in DOMAIN locals.peaks}

\* bin k, at local index k - min_idx of the in-range power spectrum, is
\* not the first or last sample of the range, is strictly greater than
\* both neighbours and than 0.2 times the maximum of the range
Candidate(k) ==
    /\ RangeMin + 1 <= k /\ k <= RangeMax - 2
    /\ Power(k) > Power(k - 1)
    /\ Power(k) > Power(k + 1)
    /\ \A m \in RangeMin..(RangeMax - 1) : 10 * Power(k) > 2 * Power(m)

\* C14: a sample of the in-range power spectrum is in the peak set if and
\* only if it is at local index 1..length-2, strictly greater than both
\* neighbours and strictly greater than 0.2 times the maximum; it is
\* recorded once with its bin, frequency and power, and the peak set is
\* ordered by descending power
C14_PeakSet ==
    (Returned /\ CallN > 0) =>
        /\ \A k \in RangeMin..(RangeMax - 1) : k \in PeakBins <=> Candidate(k)
        /\ \A k \in PeakBins : RangeMin <= k /\ k < RangeMax
        /\ Cardinality(PeakBins) = Len(locals.peaks)
        /\ \A j \in DOMAIN locals.peaks :
               /\ locals.peaks[j].power = Power(locals.peaks[j].idx)
               /\ locals.peaks[j].freq = BinFreq(locals.peaks[j].idx)
        /\ \A j \in 1..(Len(locals.peaks) - 1) :
               locals.peaks[j].power >= locals.peaks[j + 1].power

\* the first sample of the range is its strict maximum, the last sample
\* is greater than its neighbour, neither is in the peak set, and the
\* interior sample between them is
C14_Witness ==
    /\ Returned /\ CallN > 0
    /\ RangeMax - RangeMin = 5
    /\ \A k \in (RangeMin + 1)..(RangeMax - 1) : Power(RangeMin) > Power(k)
    /\ Power(RangeMax - 1) > Power(RangeMax - 2)
    /\ PeakBins = {RangeMin + 2}

\* C15: whenever the search range is not empty and no sample is a
\* candidate peak, find_dominant_frequency returns (min_idx + argmax) *
\* fs / N for the maximum of the in-range power spectrum, the first
\* maximal bin when several are equal
C15_Fallback ==
    (/\ Returned /\ CallN > 0
     /\ RangeMin < RangeMax
     /\ \A k \in RangeMin..(RangeMax - 1) : ~Candidate(k)) =>
        /\ ret.exc = NoExc
        /\ \E k \in RangeMin..(RangeMax - 1) :
               /\ \A m \in RangeMin..(RangeMax - 1) : Power(m) <= Power(k)
               /\ \A m \in RangeMin..(k - 1) : Power(m) < Power(k)
               /\ ret.dominant_freq = BinFreq(k)

\* a strictly increasing spectrum over a range of four or more bins: the
\* maximum sits on the last bin of the range and its frequency is returned
C15_Witness ==
    /\ Returned /\ CallN > 0
    /\ RangeMax - RangeMin >= 4
    /\ \A k \in RangeMin..(RangeMax - 2) : Power(k) < Power(k + 1)
    /\ locals.peaks = <<>>
    /\ ret.dominant_freq = BinFreq(RangeMax - 1)

\* the peak at position j of the sorted peak set has a frequency with
\* 1.9 < dominant.freq / freq < 2.1 and more than 0.3 of the dominant power
Passes(j) ==
    LET dominant == locals.peaks[1].idx
        peak == locals.peaks[j].idx
    IN  /\ 19 * peak < 10 * dominant
        /\ 10 * dominant < 21 * peak
        /\ 10 * Power(peak) > 3 * Power(dominant)

\* C16: the dominant peak is the one of highest power; the result is the
\* frequency of the first of the remaining peaks, in descending power
\* order, that passes the harmonic test, whatever the later peaks are, and
\* the dominant frequency when none passes or there is only one peak
C16_HarmonicRule ==
    (Returned /\ CallN > 0 /\ locals.peaks # <<>>) =>
        /\ ret.exc = NoExc
        /\ \A k \in RangeMin..(RangeMax - 1) :
               Candidate(k) => Power(k) <= Power(locals.peaks[1].idx)
        /\ IF \E j \in 2..Len(locals.peaks) : Passes(j)
           THEN \E j \in 2..Len(locals.peaks) :
                    /\ Passes(j)
                    /\ \A i \in 2..(j - 1) : ~Passes(i)
                    /\ ret.dominant_freq = BinFreq(locals.peaks[j].idx)
           ELSE ret.dominant_freq = BinFreq(locals.peaks[1].idx)

\* two peaks pass the test; the stronger one, at the higher frequency, is
\* returned and the weaker one after it is not
C16_Witness ==
    /\ Returned /\ CallN > 0
    /\ Len(locals.peaks) = 3
    /\ Passes(2) /\ Passes(3)
    /\ locals.peaks[2].power > locals.peaks[3].power
    /\ locals.peaks[2].idx > locals.peaks[3].idx
    /\ ret.dominant_freq = BinFreq(locals.peaks[2].idx)
    /\ ret.dominant_freq # BinFreq(locals.peaks[3].idx)

---------------------------------------------------------------------------
(* Claims about the stages as functions, on the direct calls *)

\* a direct call of a stage has returned or raised: the conditioner with a
\* band that is valid for a positive sampling rate, the spectral estimator
\* with a positive sampling rate
StageCalled ==
    \/ /\ pc = "filtered"
       /\ args.fs[1] > 0
       /\ ValidBand(args.fs, args.lowcut, args.highcut)
    \/ Returned
    \/ pc = "found" /\ args.fs[1] > 0

\* C17: every stage returns a value and never raises, for every input
\* sequence, the empty one and those of a few samples included
C17_StagesTotal == StageCalled => ret.exc = NoExc

\* C18: every value find_dominant_frequency returns is 0, on an empty
\* range, or the frequency k * fs / N of a bin with min_idx <= k < max_idx:
\* a result on a non-empty range is above 0, strictly below the band's
\* max frequency and no lower than min_idx * fs / N, and it is never above
\* the dominant peak's frequency
C18_ResultRange ==
    (Returned /\ ret.exc = NoExc) =>
        IF RangeMin >= RangeMax
        THEN ret.dominant_freq = <<0, 1>>
        ELSE /\ \E k \in RangeMin..(RangeMax - 1) :
                    ret.dominant_freq = BinFreq(k)
             /\ ret.dominant_freq[1] > 0
             /\ RatLt(ret.dominant_freq, BandMax)
             /\ RatLe(BinFreq(RangeMin), ret.dominant_freq)
             /\ locals.peaks # <<>> =>
                    RatLe(ret.dominant_freq, locals.peaks[1].freq)

\* harmonic correction has replaced the dominant peak's frequency by a
\* lower one of the search range
C18_Witness ==
    /\ Returned /\ ret.exc = NoExc
    /\ locals.peaks # <<>>
    /\ ret.dominant_freq # locals.peaks[1].freq
    /\ RatLt(ret.dominant_freq, locals.peaks[1].freq)
    /\ \E k \in (RangeMin + 1)..(RangeMax - 2) :
           ret.dominant_freq = BinFreq(k)

===========================================================================
